---- MODULE Spec2Model ----
(***************************************************************************)
(* The fetch methods of the geniusrise_databases connectors.                *)
(*                                                                          *)
(* Every connector class has one method, fetch, with the same skeleton:     *)
(* open a connection, read the backend (in one shot or page by page), hand  *)
(* what was read to self.output.save, and record the outcome of the run in  *)
(* self.state under self.id (success_count, failure_count and, in some      *)
(* connectors, a processed count).  The connectors differ in where the      *)
(* connection is opened (outside any try, in a try of its own that returns, *)
(* inside the main try), in the shape of the read loop, in what the except  *)
(* clause does and in whether a finally clause closes the connection.       *)
(* Each connector is described by a record of these choices (its profile),  *)
(* read off its source file; the actions below execute a run of fetch step  *)
(* by step according to the profile of the connector under test.            *)
(*                                                                          *)
(* The backend of a run holds the records 1..rows in that order.  Opening   *)
(* the connection, the query, a page fetch, a sink save and the statement   *)
(* that follows the success update may each raise.                          *)
(***************************************************************************)
EXTENDS Integers, Sequences, FiniteSets, TLC

\* ------------------------------------------------------------------ bounds
\* Most records a backend holds in one run.
MaxRows == 4
\* Largest page_size / batch_size argument of a run.
MaxPage == 2
\* Runs of fetch started in one behaviour.
MaxRuns == 2

\* Job identifiers (self.id) and the processes that call fetch.
JobIds == {"job1", "job2"}
Proc == {1, 2}

\* The in-memory counters and the log of saves are kept exactly up to
\* MaxCount; a loop that never ends (see SliceBatch) saturates them there.
\* No run whose loop ends reaches the cap: it saves at most rows <= MaxRows
\* pages and counts at most rows records.
MaxCount == MaxRows + 1

Min(a, b) == IF a < b THEN a ELSE b
Sat(n) == Min(n, MaxCount)

\* --------------------------------------------------------------- profiles
\* connect: "bare"    the connection is opened outside any try: an error
\*                    leaves fetch as an exception;
\*          "guarded" opened in a try of its own whose except logs and returns;
\*          "tried"   opened inside the main try;
\*          "none"    fetch opens no connection: each read is one HTTP request.
\* query:   a statement inside the main try runs the query before the loop.
\* loop:    "fetchmany" cursor.fetchmany(page_size) until an empty page;
\*          "row"       one record per iteration until the cursor is exhausted;
\*          "token"     scan(Limit, ExclusiveStartKey) with LastEvaluatedKey;
\*          "slice"     batch = list[::100] of the list read by the query;
\*          "single"    one read of the whole result, one save;
\*          "continuation" query_items(options) with _continuation_token;
\*          "limited"   one record per iteration of a cursor cut off after
\*                      page_size records (find(...).limit(page_size));
\*          "hits"      one search that returns at most page_size hits, then
\*                      one save per hit;
\*          "drain"     batch = list(cursor): all that is left of the cursor;
\*          "poll"      get_query_execution until the status is SUCCEEDED or
\*                      FAILED, then one save of the result.
\* field:   key of the processed count in the state ("" if none is kept).
\* onFetch, onSave: what an error of the query / a fetch, of a save does:
\*          "record" the except clause writes failure_count + 1,
\*          "return" fetch logs and returns, "raise" the error leaves fetch.
\* post:    a statement that may raise follows set_state inside the try.
\* sized:   the reads come in pages whose size is an argument of fetch
\*          (page_size, batch_size) or is fixed by the driver or the backend
\*          (fetchmany() without an argument, query_items).
\* twoStep: the connection set-up is more than one call, so that it can fail
\*          after a handle was created.
\* release: "finally" closed in a finally clause, "scoped" by a with block,
\*          "never" fetch holds no close call, "unlink" the finally clause
\*          closes the connection and removes the database file that fetch
\*          downloaded before it connected.
GoogleCloudSQL ==
    [name |-> "GoogleCloudSQL", sized |-> TRUE, twoStep |-> FALSE,
     connect |-> "bare", query |-> TRUE,
     loop |-> "fetchmany", field |-> "processed_rows", onFetch |-> "record",
     onSave |-> "record", post |-> TRUE, release |-> "finally"]
TiDB == [GoogleCloudSQL EXCEPT !.name = "TiDB"]
TimescaleDB == [GoogleCloudSQL EXCEPT !.name = "TimescaleDB"]
Sybase == [GoogleCloudSQL EXCEPT !.name = "Sybase"]
SQLite ==
    [name |-> "SQLite", sized |-> TRUE, twoStep |-> FALSE,
     connect |-> "bare", query |-> TRUE,
     loop |-> "fetchmany", field |-> "processed_rows", onFetch |-> "record",
     onSave |-> "record", post |-> FALSE, release |-> "unlink"]
Oracle == [GoogleCloudSQL EXCEPT !.name = "Oracle"]
SQLServer == [GoogleCloudSQL EXCEPT !.name = "SQLServer"]
DynamoDB ==
    [name |-> "DynamoDB", sized |-> TRUE, twoStep |-> FALSE,
     connect |-> "bare", query |-> FALSE,
     loop |-> "token", field |-> "processed_rows", onFetch |-> "record",
     onSave |-> "record", post |-> FALSE, release |-> "never"]
HBase ==
    [name |-> "HBase", sized |-> TRUE, twoStep |-> TRUE,
     connect |-> "bare", query |-> FALSE,
     loop |-> "row", field |-> "processed_rows", onFetch |-> "record",
     onSave |-> "record", post |-> FALSE, release |-> "finally"]
Cassandra ==
    [name |-> "Cassandra", sized |-> FALSE, twoStep |-> TRUE,
     connect |-> "bare", query |-> TRUE,
     loop |-> "row", field |-> "processed_rows", onFetch |-> "record",
     onSave |-> "record", post |-> FALSE, release |-> "finally"]
Couchbase ==
    [name |-> "Couchbase", sized |-> FALSE, twoStep |-> TRUE,
     connect |-> "bare", query |-> TRUE,
     loop |-> "row", field |-> "processed_docs", onFetch |-> "record",
     onSave |-> "record", post |-> FALSE, release |-> "never"]
ArangoDB ==
    [name |-> "ArangoDB", sized |-> FALSE, twoStep |-> TRUE,
     connect |-> "guarded", query |-> TRUE,
     loop |-> "row", field |-> "", onFetch |-> "record",
     onSave |-> "record", post |-> FALSE, release |-> "finally"]
DB2 == [ArangoDB EXCEPT !.name = "DB2", !.twoStep = FALSE]
Presto == [ArangoDB EXCEPT !.name = "Presto", !.twoStep = FALSE]
Teradata == [ArangoDB EXCEPT !.name = "Teradata", !.twoStep = FALSE]
LDAP ==
    [name |-> "LDAP", sized |-> FALSE, twoStep |-> TRUE,
     connect |-> "guarded", query |-> FALSE,
     loop |-> "single", field |-> "", onFetch |-> "return",
     onSave |-> "raise", post |-> FALSE, release |-> "never"]
BigQuery ==
    [name |-> "BigQuery", sized |-> FALSE, twoStep |-> FALSE,
     connect |-> "bare", query |-> FALSE,
     loop |-> "single", field |-> "processed_rows", onFetch |-> "raise",
     onSave |-> "raise", post |-> FALSE, release |-> "never"]
Spanner ==
    [name |-> "Spanner", sized |-> FALSE, twoStep |-> TRUE,
     connect |-> "bare", query |-> FALSE,
     loop |-> "single", field |-> "processed_rows", onFetch |-> "raise",
     onSave |-> "raise", post |-> FALSE, release |-> "scoped"]
Bigtable ==
    [name |-> "Bigtable", sized |-> FALSE, twoStep |-> TRUE,
     connect |-> "bare", query |-> FALSE,
     loop |-> "single", field |-> "", onFetch |-> "record",
     onSave |-> "record", post |-> TRUE, release |-> "never"]
Firestore ==
    [name |-> "Firestore", sized |-> FALSE, twoStep |-> FALSE,
     connect |-> "bare", query |-> TRUE,
     loop |-> "slice", field |-> "processed_documents", onFetch |-> "record",
     onSave |-> "record", post |-> FALSE, release |-> "never"]
VoltDB ==
    [name |-> "VoltDB", sized |-> FALSE, twoStep |-> TRUE,
     connect |-> "tried", query |-> TRUE,
     loop |-> "slice", field |-> "processed_tables", onFetch |-> "record",
     onSave |-> "record", post |-> FALSE, release |-> "never"]
CosmosDB ==
    [name |-> "CosmosDB", sized |-> TRUE, twoStep |-> FALSE,
     connect |-> "bare", query |-> TRUE,
     loop |-> "continuation", field |-> "processed_documents",
     onFetch |-> "record", onSave |-> "record", post |-> FALSE,
     release |-> "never"]
Vertica ==
    [name |-> "Vertica", sized |-> FALSE, twoStep |-> FALSE,
     connect |-> "bare", query |-> TRUE,
     loop |-> "single", field |-> "processed_rows", onFetch |-> "record",
     onSave |-> "record", post |-> TRUE, release |-> "finally"]
MemSQL ==
    [name |-> "MemSQL", sized |-> FALSE, twoStep |-> FALSE,
     connect |-> "bare", query |-> TRUE,
     loop |-> "single", field |-> "", onFetch |-> "record",
     onSave |-> "record", post |-> FALSE, release |-> "never"]
NuoDB ==
    [name |-> "NuoDB", sized |-> FALSE, twoStep |-> TRUE,
     connect |-> "tried", query |-> TRUE,
     loop |-> "single", field |-> "", onFetch |-> "record",
     onSave |-> "record", post |-> FALSE, release |-> "never"]
AWSKeyspaces ==
    [name |-> "AWSKeyspaces", sized |-> FALSE, twoStep |-> FALSE,
     connect |-> "bare", query |-> FALSE,
     loop |-> "single", field |-> "", onFetch |-> "record",
     onSave |-> "record", post |-> FALSE, release |-> "never"]
KairosDB ==
    [name |-> "KairosDB", sized |-> FALSE, twoStep |-> FALSE,
     connect |-> "none", query |-> FALSE,
     loop |-> "single", field |-> "", onFetch |-> "record",
     onSave |-> "record", post |-> FALSE, release |-> "never"]
Graphite == [KairosDB EXCEPT !.name = "Graphite"]
DocumentDB ==
    [name |-> "DocumentDB", sized |-> TRUE, twoStep |-> FALSE,
     connect |-> "bare", query |-> TRUE,
     loop |-> "limited", field |-> "processed_docs", onFetch |-> "record",
     onSave |-> "record", post |-> FALSE, release |-> "finally"]
Elasticsearch ==
    [name |-> "Elasticsearch", sized |-> TRUE, twoStep |-> FALSE,
     connect |-> "bare", query |-> FALSE,
     loop |-> "hits", field |-> "processed_docs", onFetch |-> "record",
     onSave |-> "record", post |-> FALSE, release |-> "never"]
MongoDB ==
    [name |-> "MongoDB", sized |-> FALSE, twoStep |-> FALSE,
     connect |-> "bare", query |-> TRUE,
     loop |-> "drain", field |-> "processed_rows", onFetch |-> "record",
     onSave |-> "record", post |-> FALSE, release |-> "finally"]
Redis == [MongoDB EXCEPT !.name = "Redis"]
Neo4j ==
    [name |-> "Neo4j", sized |-> FALSE, twoStep |-> FALSE,
     connect |-> "bare", query |-> TRUE,
     loop |-> "drain", field |-> "processed_nodes", onFetch |-> "record",
     onSave |-> "record", post |-> TRUE, release |-> "scoped"]
Athena ==
    [name |-> "Athena", sized |-> FALSE, twoStep |-> FALSE,
     connect |-> "bare", query |-> TRUE,
     loop |-> "poll", field |-> "", onFetch |-> "record",
     onSave |-> "record", post |-> FALSE, release |-> "never"]

Connectors ==
    {GoogleCloudSQL, TiDB, TimescaleDB, Sybase, SQLite, Oracle, SQLServer,
     DynamoDB, HBase, Cassandra, Couchbase, ArangoDB, DB2, Presto, Teradata,
     LDAP, BigQuery, Spanner, Bigtable, Firestore, VoltDB, CosmosDB, Vertica,
     MemSQL, NuoDB, AWSKeyspaces, KairosDB, Graphite, DocumentDB,
     Elasticsearch, MongoDB, Redis, Neo4j, Athena}

ConnectorNames == {c.name : c \in Connectors}
Profile(n) == CHOOSE c \in Connectors : c.name = n

\* ------------------------------------------------------------------ state
\* The frame of a call of fetch (run[p]) holds the position in the code (pc),
\* the locals of fetch (page, more: the response held a LastEvaluatedKey,
\* processed, cur: current_state) and the backend's cursor (pos: records
\* returned so far), and, for the statements about a run, what the run has
\* done: prior (the stored state when the run began), opened and closed
\* (connection handles created, close calls made), wrote (the set_state
\* calls, "success" or "failure", in order), saved (the pages output.save
\* stored, in order), fetches (reads of the loop), fault (the step that
\* raised) and outcome (how fetch ended: "returned" or "raised").
\* token is what the last response said about a continuation token ("key": it
\* held one, "none": the key was there with no value, "absent": no such key),
\* got the state that get_state returned.  For SQLite, path is the local file
\* /tmp/<base name of s3_key>, own the number of records of the database
\* stored under s3_key, and rows and schema describe the database file the
\* connection was opened on.  For Athena, status is the state of the query
\* execution as the last get_query_execution reported it ("NONE" before).
VARIABLES
    connector,  \* name of the connector class whose fetch is run
    store,      \* self.state: job id -> stored dict (<<>> when nothing is stored)
    run,        \* per process: the frame of its call of fetch
    completed,  \* per job id: calls of fetch that have returned or raised
    runsLeft,   \* calls of fetch that may still start
    tmp,        \* the files of /tmp: path -> the database file stored there
    sizes       \* the numbers of records the backends of the runs may hold

vars == <<connector, store, run, completed, runsLeft, tmp, sizes>>

\* Base names of the s3_key arguments, and a path of /tmp that holds no file.
Paths == {"a.db", "b.db"}
NoFile == [present |-> FALSE, schema |-> FALSE, rows |-> 0]

\* What state.get_state returns for an id with no stored state (None), and
\* a dict: a function from keys to integers.
NoState == <<>>
Put(d, k, v) == [i \in DOMAIN d \cup {k} |-> IF i = k THEN v ELSE d[i]]

\* Neo4j.fetch keeps a second count, processed_relationships, and the dict
\* of its except clause has the key processed_docs in place of the two.
ExtraField(prof) == IF prof.name = "Neo4j" THEN "processed_relationships" ELSE ""
FailureField(prof) == IF prof.name = "Neo4j" THEN "processed_docs" ELSE prof.field

\* The literal dict of "self.state.get_state(self.id) or {...}" of the
\* success update.
DefaultState(prof) ==
    [k \in {"success_count", "failure_count"}
           \cup ({prof.field, ExtraField(prof)} \ {""}) |-> 0]

\* The literal dict of the except clause.
FailureDefault(prof) ==
    [k \in {"success_count", "failure_count"}
           \cup ({FailureField(prof)} \ {""}) |-> 0]

\* state.get_state(self.id) or {...}
GetStateOr(st, prof) == IF st = NoState THEN DefaultState(prof) ELSE st
GetStateOrFailure(st, prof) == IF st = NoState THEN FailureDefault(prof) ELSE st

\* The records of the backend, in the order the backend returns them.
Data(n) == [i \in 1..n |-> i]

IdleRun ==
    [pc |-> "idle", job |-> "job1", rows |-> 0, pageSize |-> 1,
     pos |-> 0, page |-> <<>>, more |-> FALSE, processed |-> 0,
     cur |-> NoState, prior |-> NoState, opened |-> 0, closed |-> 0,
     wrote |-> <<>>,
     saved |-> <<>>, fetches |-> 0, fault |-> "none", outcome |-> "none",
     token |-> "absent", got |-> NoState, path |-> "a.db", own |-> 0,
     schema |-> TRUE, status |-> "NONE"]

Init ==
    /\ connector \in ConnectorNames
    /\ store = [j \in JobIds |-> NoState]
    /\ run = [p \in Proc |-> IdleRun]
    /\ completed = [j \in JobIds |-> 0]
    /\ runsLeft = MaxRuns
    /\ tmp = [f \in Paths |-> NoFile]
    /\ sizes = 0..MaxRows

Prof == Profile(connector)

\* ------------------------------------------------------- the reads of a run
\* A fetchmany that returns one record more than it was asked for.
FetchManyWide(r) ==
    SubSeq(Data(r.rows), r.pos + 1, Min(r.pos + r.pageSize + 1, r.rows))

\* A fetchmany that resumes behind the records counted by the previous run.
FetchManyResumed(r) ==
    LET off == r.pos + (IF r.prior = NoState THEN 0 ELSE r.prior["processed_rows"])
    IN  SubSeq(Data(r.rows), off + 1, Min(off + r.pageSize, r.rows))

\* cursor.fetchmany(page_size): the next page_size records, fewer at the end,
\* none after the end.
FetchMany(r) == SubSeq(Data(r.rows), r.pos + 1, Min(r.pos + r.pageSize, r.rows))

\* cursor.next() / fetch_assoc / fetchone / one iteration of "for row in":
\* the next record, or nothing when the cursor is exhausted.
NextRow(r) == SubSeq(Data(r.rows), r.pos + 1, Min(r.pos + 1, r.rows))

\* table.scan(Limit=page_size[, ExclusiveStartKey]): the responses the
\* backend may give from position r.pos: at most Limit of the next items
\* (possibly none), with a LastEvaluatedKey whenever items remain behind the
\* page, and possibly one when the page ended exactly at the end of the table.
ScanResponses(r) ==
    {[items |-> SubSeq(Data(r.rows), r.pos + 1, r.pos + k), more |-> m] :
        <<k, m>> \in {km \in (0..Min(r.pageSize, r.rows - r.pos)) \X BOOLEAN :
            /\ (r.pos + km[1] < r.rows) => km[2]
            /\ (km[2] /\ r.pos + km[1] = r.rows) => km[1] = r.pageSize}}

\* documents[::100], tables[::100]: every 100th element of the whole list,
\* starting with the first.
Stride == 100
SliceBatch(r) ==
    LET d == Data(r.rows)
        idx == {i \in 1..Len(d) : (i - 1) % Stride = 0}
    IN  [n \in 1..Cardinality(idx) |-> d[(n - 1) * Stride + 1]]

\* The whole result in one read (fetchall, search_s, query().result(), ...).
FetchAll(r) == Data(r.rows)

\* collection.query_items(query, options): options carries "continuation"
\* only when the local continuation_token is set, so the query starts behind
\* the last page if the last response held a token and at the first record
\* otherwise.  The backend returns the next page; while records remain behind
\* the page the response holds a token, at the end it may hold one, hold the
\* key without a value, or not hold the key.
QueryItems(r) ==
    LET start == IF r.token = "key" THEN r.pos ELSE 0
        upto == Min(start + r.pageSize, r.rows)
    IN  {[items |-> SubSeq(Data(r.rows), start + 1, upto), pos |-> upto,
          token |-> t] :
            t \in IF upto < r.rows THEN {"key"} ELSE {"key", "none", "absent"}}

\* One iteration over coll.find(query).limit(page_size): the next record of
\* the first page_size records of the result.
LimitedRow(r) ==
    SubSeq(Data(r.rows), r.pos + 1, Min(r.pos + 1, Min(r.pageSize, r.rows)))

\* es.search(index, body, size=page_size)["hits"]["hits"]: the first
\* page_size documents that match.
SearchHits(r) == SubSeq(Data(r.rows), 1, Min(r.pageSize, r.rows))

\* list(cursor), list(cursor.batch_size(100)): every record the cursor has
\* not yet returned.
DrainCursor(r) == SubSeq(Data(r.rows), r.pos + 1, r.rows)

\* The states in which a query execution of the backend stays for good.
Terminal == {"SUCCEEDED", "FAILED", "CANCELLED"}

\* athena.get_query_execution(...)["QueryExecution"]["Status"]["State"]: an
\* execution that has ended stays as it is, one that has not may have ended
\* in any way since the last call.
QueryStatus(r) ==
    IF r.status \in Terminal THEN {r.status}
    ELSE {"RUNNING"} \cup Terminal

\* The result set that comes with a status: the records of the query once it
\* has succeeded, none otherwise.
ResultSet(r, st) == IF st = "SUCCEEDED" THEN Data(r.rows) ELSE <<>>

\* What one read of the loop returns, and the position of the cursor after it.
ReadResults(r) ==
    CASE Prof.loop = "fetchmany" ->
            {[page |-> FetchMany(r), more |-> TRUE, token |-> "absent",
              pos |-> r.pos + Len(FetchMany(r))]}
      [] Prof.loop = "row" ->
            {[page |-> NextRow(r), more |-> TRUE, token |-> "absent",
              pos |-> r.pos + Len(NextRow(r))]}
      [] Prof.loop = "token" ->
            {[page |-> x.items, more |-> x.more,
              token |-> IF x.more THEN "key" ELSE "absent",
              pos |-> r.pos + Len(x.items)] : x \in ScanResponses(r)}
      [] Prof.loop = "slice" ->
            {[page |-> SliceBatch(r), more |-> TRUE, token |-> "absent",
              pos |-> r.pos]}
      [] Prof.loop = "single" ->
            {[page |-> FetchAll(r), more |-> FALSE, token |-> "absent",
              pos |-> r.rows]}
      [] Prof.loop = "continuation" ->
            {[page |-> x.items, more |-> x.token = "key", token |-> x.token,
              pos |-> x.pos] : x \in QueryItems(r)}
      [] Prof.loop = "limited" ->
            {[page |-> LimitedRow(r), more |-> TRUE, token |-> "absent",
              pos |-> r.pos + Len(LimitedRow(r))]}
      [] Prof.loop = "hits" ->
            {[page |-> SearchHits(r), more |-> FALSE, token |-> "absent",
              pos |-> Len(SearchHits(r))]}
      [] Prof.loop = "drain" ->
            {[page |-> DrainCursor(r), more |-> FALSE, token |-> "absent",
              pos |-> r.rows]}
      [] Prof.loop = "poll" ->
            {[page |-> ResultSet(r, st), more |-> FALSE, token |-> "absent",
              pos |-> Len(ResultSet(r, st)), status |-> st] :
                st \in QueryStatus(r)}

\* A loop that leaves on a page shorter than page_size before saving it.
AfterReadShortBreak(r, page) ==
    IF Prof.loop # "single" /\ (page = <<>> \/ Len(page) < r.pageSize)
    THEN "get_ok" ELSE "save"

\* A loop without the test for an empty page, and a loop that reads the next
\* page before it has saved the one it holds.
AfterReadSaveEmpty(r, page) == "save"
AfterReadPrefetch(r, page) ==
    IF Prof.loop = "single" THEN "save"
    ELSE IF page = <<>> THEN "get_ok"
    ELSE IF r.fetches = 0 THEN "fetch" ELSE "save"

\* "if not rows: break": where the run goes after a read.  The single-shot
\* connectors have no such test: they save whatever they read.  The polling
\* loop is left on 'status in ["SUCCEEDED", "FAILED"]'; r.status is the
\* status just read.
AfterRead(r, page) ==
    IF Prof.loop = "poll"
    THEN IF r.status \in {"SUCCEEDED", "FAILED"} THEN "save" ELSE "sleep"
    ELSE IF Prof.loop # "single" /\ page = <<>> THEN "get_ok" ELSE "save"

\* A run that reads again after every save.
AfterSaveAgain(r) == "fetch"

\* Where the run goes after a save: round the loop again, except that the
\* token loop ends when the response held no LastEvaluatedKey and the
\* single-shot connectors have no loop.
AfterSave(r) ==
    CASE Prof.loop \in {"single", "poll"} -> "get_ok"
      [] Prof.loop = "token" -> IF r.more THEN "fetch" ELSE "get_ok"
      [] Prof.loop = "hits" -> IF Len(r.page) > 1 THEN "save" ELSE "get_ok"
      [] OTHER -> "fetch"

\* The argument of the output.save call the run is at: the page just read,
\* or, where the loop runs over the hits of one search, the next hit.
SaveArg(r) ==
    IF Prof.loop = "hits" /\ r.page # <<>> THEN <<Head(r.page)>> ELSE r.page

\* What is left to save of the page after that call.
SaveRest(r) ==
    IF Prof.loop = "hits" /\ r.page # <<>> THEN Tail(r.page) ELSE <<>>

\* An error that is swallowed: the run goes on to its success update.
FailToSwallow(r, where, policy) == [r EXCEPT !.fault = where, !.pc = "get_ok"]

\* An error after which the run goes round the loop again.
FailToRetry(r, where, policy) == [r EXCEPT !.fault = where, !.pc = "fetch"]

\* The frame after an error at step `where` under the policy of that step.
FailTo(r, where, policy) ==
    CASE policy = "record" -> [r EXCEPT !.fault = where, !.pc = "get_fail"]
      [] policy = "return" ->
            [r EXCEPT !.fault = where, !.pc = "release", !.outcome = "returned"]
      [] policy = "raise" ->
            [r EXCEPT !.fault = where, !.pc = "release", !.outcome = "raised"]

\* The frame after the connection could not be opened; `partial` says that a
\* handle had been created when the error came.
ConnectFailed(r, partial) ==
    LET f == [r EXCEPT !.fault = "connect", !.opened = IF partial THEN 1 ELSE 0]
    IN  CASE Prof.connect = "bare" -> [f EXCEPT !.pc = "done", !.outcome = "raised"]
          [] Prof.connect = "guarded" ->
                [f EXCEPT !.pc = "done", !.outcome = "returned"]
          [] Prof.connect = "tried" -> [f EXCEPT !.pc = "get_fail"]

\* A success update that adds the run's count to the stored one, and one that
\* reads the stored state in the same step in which it writes.
SuccessStateAdding(r) ==
    LET s == [r.cur EXCEPT !["success_count"] = @ + 1]
    IN  IF Prof.field = "" THEN s
        ELSE Put(s, Prof.field,
                 (IF Prof.field \in DOMAIN r.cur THEN r.cur[Prof.field] ELSE 0)
                    + r.processed)
SuccessStateAtomic(r) ==
    LET s == [GetStateOr(store[r.job], Prof) EXCEPT !["success_count"] = @ + 1]
    IN  IF Prof.field = "" THEN s ELSE Put(s, Prof.field, r.processed)

\* current_state["success_count"] += 1 and, where a count is kept,
\* current_state[field] = processed.
SuccessState(r) ==
    LET s == [r.cur EXCEPT !["success_count"] = @ + 1]
        t == IF Prof.field = "" THEN s ELSE Put(s, Prof.field, r.processed)
    IN  IF ExtraField(Prof) = "" THEN t
        ELSE Put(t, ExtraField(Prof), r.processed)

\* A failure update that starts from a fresh dict.
FailureStateReset(r) ==
    [FailureDefault(Prof) EXCEPT !["failure_count"] = r.cur["failure_count"] + 1]

\* current_state["failure_count"] += 1
FailureState(r) == [r.cur EXCEPT !["failure_count"] = @ + 1]

\* The number of close calls the end of fetch makes.
Closes == IF Prof.release \in {"finally", "scoped", "unlink"} THEN 1 ELSE 0

\* ----------------------------------------------------------------- actions
\* A call of fetch by process p: the arguments and the backend of the run.
\* SQLite.fetch begins with the download of the database file.
Start(p) ==
    /\ run[p].pc = "idle"
    /\ runsLeft > 0
    /\ \E j \in JobIds, n \in sizes,
          ps \in (IF Prof.sized THEN 1..MaxPage ELSE {1}),
          f \in (IF Prof.release = "unlink" THEN Paths ELSE {"a.db"}) :
          run' = [run EXCEPT ![p] =
                    [IdleRun EXCEPT
                        !.pc = IF Prof.release = "unlink" THEN "download"
                               ELSE "connect",
                        !.job = j, !.rows = n, !.own = n, !.path = f,
                        !.pageSize = ps, !.prior = store[j]]]
    /\ runsLeft' = runsLeft - 1
    /\ UNCHANGED <<connector, store, completed, tmp, sizes>>

\* s3.download_file(s3_bucket, s3_key, local_path), outside any try: the
\* database stored under s3_key replaces whatever file stands at local_path.
Download(p) ==
    /\ run[p].pc = "download"
    /\ \/ /\ tmp' = [tmp EXCEPT ![run[p].path] =
                        [present |-> TRUE, schema |-> TRUE, rows |-> run[p].own]]
          /\ run' = [run EXCEPT ![p] = [@ EXCEPT !.pc = "connect"]]
       \/ /\ run' = [run EXCEPT ![p] =
                       [@ EXCEPT !.fault = "download", !.pc = "done",
                                 !.outcome = "raised"]]
          /\ UNCHANGED tmp
    /\ UNCHANGED <<connector, store, completed, runsLeft, sizes>>

\* The database a connection opened on local_path reads: the file that stands
\* there, or, if none does, the empty database sqlite3.connect creates.
OpenedFile(r) ==
    IF tmp[r.path].present THEN tmp[r.path]
    ELSE [present |-> TRUE, schema |-> FALSE, rows |-> 0]

\* Opening the connection.  A connector without a connection has nothing to
\* open; sqlite3.connect opens the file at local_path.
Connect(p) ==
    /\ run[p].pc = "connect"
    /\ \/ /\ run' = [run EXCEPT ![p] =
                       [@ EXCEPT
                          !.opened = IF Prof.connect = "none" THEN 0 ELSE 1,
                          !.rows = IF Prof.release = "unlink"
                                   THEN OpenedFile(run[p]).rows ELSE @,
                          !.schema = IF Prof.release = "unlink"
                                     THEN OpenedFile(run[p]).schema ELSE @,
                          !.pc = IF Prof.query THEN "query" ELSE "fetch"]]
          /\ tmp' = IF Prof.release = "unlink"
                    THEN [tmp EXCEPT ![run[p].path] = OpenedFile(run[p])]
                    ELSE tmp
       \/ /\ Prof.connect # "none"
          /\ \E partial \in (IF Prof.twoStep THEN BOOLEAN ELSE {FALSE}) :
                run' = [run EXCEPT ![p] = ConnectFailed(@, partial)]
          /\ UNCHANGED tmp
    /\ UNCHANGED <<connector, store, completed, runsLeft, sizes>>

\* cursor.execute(query) and its like.  The slice connectors read the whole
\* list here.  A query on a database without tables raises.
Query(p) ==
    /\ run[p].pc = "query"
    /\ \/ /\ run[p].schema
          /\ run' = [run EXCEPT ![p] =
                       [@ EXCEPT !.pc = "fetch",
                                 !.pos = IF Prof.loop = "slice" THEN run[p].rows
                                         ELSE 0]]
       \/ run' = [run EXCEPT ![p] = FailTo(@, "query", Prof.onFetch)]
    /\ UNCHANGED <<connector, store, completed, runsLeft, tmp, sizes>>

\* One read of the loop.  Slicing a list in memory cannot fail.
Fetch(p) ==
    /\ run[p].pc = "fetch"
    /\ \/ \E x \in ReadResults(run[p]) :
             run' = [run EXCEPT ![p] =
                       [@ EXCEPT !.page = x.page, !.more = x.more, !.pos = x.pos,
                                 !.token = x.token,
                                 !.status = IF Prof.loop = "poll" THEN x.status
                                            ELSE @,
                                 !.fetches = Sat(@ + 1),
                                 !.pc = AfterRead(
                                    [run[p] EXCEPT
                                        !.status = IF Prof.loop = "poll"
                                                   THEN x.status ELSE @],
                                    x.page)]]
       \/ /\ Prof.loop # "slice"
          /\ run' = [run EXCEPT ![p] = FailTo(@, "fetch", Prof.onFetch)]
    /\ UNCHANGED <<connector, store, completed, runsLeft, tmp, sizes>>

\* The frame after output.save has returned: the count of processed records
\* goes up and the loop goes on.  response["_continuation_token"] raises on
\* a response that does not hold the key.
Saved(r) ==
    LET f == [r EXCEPT !.saved = IF Len(@) < MaxCount
                                    THEN Append(@, SaveArg(r)) ELSE @,
                       !.processed = IF Prof.field = "" THEN 0
                                     ELSE Sat(@ + Len(SaveArg(r))),
                       !.page = SaveRest(r),
                       !.pc = AfterSave(r)]
    IN  IF Prof.loop = "continuation" /\ r.token = "absent"
        THEN FailTo(f, "token", "record") ELSE f

\* time.sleep(5) between two polls of the query execution.
Sleep(p) ==
    /\ run[p].pc = "sleep"
    /\ run' = [run EXCEPT ![p] = [@ EXCEPT !.pc = "fetch"]]
    /\ UNCHANGED <<connector, store, completed, runsLeft, tmp, sizes>>

\* self.output.save(page), then the count of processed records.
Save(p) ==
    /\ run[p].pc = "save"
    /\ \/ run' = [run EXCEPT ![p] = Saved(@)]
       \/ run' = [run EXCEPT ![p] = FailTo(@, "save", Prof.onSave)]
    /\ UNCHANGED <<connector, store, completed, runsLeft, tmp, sizes>>

\* current_state = self.state.get_state(self.id) or {...}
GetState(p) ==
    /\ run[p].pc \in {"get_ok", "get_fail"}
    /\ run' = [run EXCEPT ![p] =
                 [@ EXCEPT !.cur = IF run[p].pc = "get_ok"
                                    THEN GetStateOr(store[run[p].job], Prof)
                                    ELSE GetStateOrFailure(store[run[p].job], Prof),
                           !.got = IF run[p].pc = "get_ok"
                                    THEN GetStateOr(store[run[p].job], Prof)
                                    ELSE GetStateOrFailure(store[run[p].job], Prof),
                           !.pc = IF @ = "get_ok" THEN "set_ok" ELSE "set_fail"]]
    /\ UNCHANGED <<connector, store, completed, runsLeft, tmp, sizes>>

\* A success update in the middle of the run: the loop goes on after it.
SetSuccessMidRun(p) ==
    /\ run[p].pc = "set_ok"
    /\ store' = [store EXCEPT ![run[p].job] = SuccessState(run[p])]
    /\ run' = [run EXCEPT ![p] =
                 [@ EXCEPT !.cur = SuccessState(run[p]),
                           !.wrote = Append(@, "success"),
                           !.pc = "fetch"]]
    /\ UNCHANGED <<connector, completed, runsLeft, tmp, sizes>>

\* The success update: the counters are changed and set_state is called.
SetSuccess(p) ==
    /\ run[p].pc = "set_ok"
    /\ store' = [store EXCEPT ![run[p].job] = SuccessState(run[p])]
    /\ run' = [run EXCEPT ![p] =
                 [@ EXCEPT !.cur = SuccessState(run[p]),
                           !.wrote = Append(@, "success"),
                           !.pc = IF Prof.post THEN "post" ELSE "release"]]
    /\ UNCHANGED <<connector, completed, runsLeft, tmp, sizes>>

\* The statement after the success update inside the try (leaving the cursor's
\* with block, the log line that takes len(rows)): it may raise.
Post(p) ==
    /\ run[p].pc = "post"
    /\ \/ run' = [run EXCEPT ![p] = [@ EXCEPT !.pc = "release"]]
       \/ run' = [run EXCEPT ![p] = FailTo(@, "post", "record")]
    /\ UNCHANGED <<connector, store, completed, runsLeft, tmp, sizes>>

\* The except clause: failure_count is changed and set_state is called.
SetFailure(p) ==
    /\ run[p].pc = "set_fail"
    /\ store' = [store EXCEPT ![run[p].job] = FailureState(run[p])]
    /\ run' = [run EXCEPT ![p] =
                 [@ EXCEPT !.cur = FailureState(run[p]),
                           !.wrote = Append(@, "failure"),
                           !.pc = "release"]]
    /\ UNCHANGED <<connector, completed, runsLeft, tmp, sizes>>

\* The end of fetch: the finally clause or the end of the with block, if the
\* connector has one, closes the connection.  SQLite's finally clause then
\* removes the file at local_path; os.remove raises if no file stands there.
Release(p) ==
    /\ run[p].pc = "release"
    /\ IF Prof.release = "unlink" /\ ~tmp[run[p].path].present
       THEN /\ run' = [run EXCEPT ![p] =
                         [@ EXCEPT !.closed = @ + Closes, !.pc = "done",
                                   !.fault = IF @ = "none" THEN "remove" ELSE @,
                                   !.outcome = "raised"]]
            /\ UNCHANGED tmp
       ELSE /\ run' = [run EXCEPT ![p] =
                         [@ EXCEPT !.closed = @ + Closes, !.pc = "done",
                                   !.outcome = IF @ = "none" THEN "returned"
                                               ELSE @]]
            /\ tmp' = IF Prof.release = "unlink"
                      THEN [tmp EXCEPT ![run[p].path] = NoFile] ELSE tmp
    /\ UNCHANGED <<connector, store, completed, runsLeft, sizes>>

\* fetch has returned to its caller or raised: the run is complete.
Finish(p) ==
    /\ run[p].pc = "done"
    /\ completed' = [completed EXCEPT ![run[p].job] = @ + 1]
    /\ run' = [run EXCEPT ![p] = IdleRun]
    /\ UNCHANGED <<connector, store, runsLeft, tmp, sizes>>

\* Runs of one caller, one after the other.
Caller == 1

Next ==
    \/ Start(Caller)
    \/ Download(Caller)
    \/ Connect(Caller)
    \/ Query(Caller)
    \/ Fetch(Caller)
    \/ Sleep(Caller)
    \/ Save(Caller)
    \/ GetState(Caller)
    \/ SetSuccess(Caller)
    \/ Post(Caller)
    \/ SetFailure(Caller)
    \/ Release(Caller)
    \/ Finish(Caller)

Spec == Init /\ [][Next]_vars

\* One run of fetch under every connector, taking steps as long as it can: a
\* running call of fetch goes on executing its next statement.
LiveInit ==
    /\ connector \in ConnectorNames
    /\ store = [j \in JobIds |-> NoState]
    /\ run = [p \in Proc |-> IdleRun]
    /\ completed = [j \in JobIds |-> 0]
    /\ runsLeft = 1
    /\ tmp = [f \in Paths |-> NoFile]
    /\ sizes = 0..MaxRows

LiveSpec == LiveInit /\ [][Next]_vars /\ WF_vars(Next)

\* Calls of fetch by two processes at once, each on a connector object of its
\* own, of the same class, over the same state store and the same /tmp: the
\* statements of the two calls interleave in every order.  The two classes
\* taken are a connector without and one with a local file; neither polls, so
\* the step between two polls is not among theirs.
ConcConnectors == {"GoogleCloudSQL", "SQLite"}

\* Most records a backend holds in a run that overlaps another, and the
\* calls of fetch started: one by each process.
ConcRows == 1
ConcRuns == Cardinality(Proc)

ConcInit ==
    /\ connector \in ConcConnectors
    /\ store = [j \in JobIds |-> NoState]
    /\ run = [p \in Proc |-> IdleRun]
    /\ completed = [j \in JobIds |-> 0]
    /\ runsLeft = ConcRuns
    /\ tmp = [f \in Paths |-> NoFile]
    /\ sizes = 0..ConcRows

ConcNext ==
    \E p \in Proc :
        \/ Start(p)
        \/ Download(p)
        \/ Connect(p)
        \/ Query(p)
        \/ Fetch(p)
        \/ Save(p)
        \/ GetState(p)
        \/ SetSuccess(p)
        \/ Post(p)
        \/ SetFailure(p)
        \/ Release(p)
        \/ Finish(p)

ConcSpec == ConcInit /\ [][ConcNext]_vars

\* ------------------------------------------------------------- statements
\* The value stored under key k of a stored state (0 when nothing is stored).
Count(st, k) == IF k \in DOMAIN st THEN st[k] ELSE 0

\* The records of a sequence of pages, in order.
RECURSIVE Flatten(_)
Flatten(pages) ==
    IF pages = <<>> THEN <<>> ELSE Head(pages) \o Flatten(Tail(pages))

\* A sequence cut into pages of n records, the last one possibly shorter.
RECURSIVE Batches(_, _)
Batches(seq, n) ==
    IF seq = <<>> THEN <<>>
    ELSE <<SubSeq(seq, 1, Min(n, Len(seq)))>>
            \o Batches(SubSeq(seq, Min(n, Len(seq)) + 1, Len(seq)), n)

\* The page passed to an output.save call that has not returned or has raised.
Pending(r) == IF r.pc = "save" \/ r.fault = "save" THEN SaveArg(r) ELSE <<>>

NoRunInProgress == \A p \in Proc : run[p].pc = "idle"

\* C1: after N completed, non-overlapping runs of a job id, whatever the mix
\* of successful and failed runs, the stored success_count + failure_count
\* of that job id equals N.
C1_AccountingInvariant ==
    NoRunInProgress =>
        \A j \in JobIds :
            Count(store[j], "success_count") + Count(store[j], "failure_count")
                = completed[j]

\* C2: every run that created a connection handle has released it exactly
\* once when fetch ends, whether the run succeeded or the connection set-up
\* (after the handle was created), a fetch or a save raised.
C2_ReleasedExactlyOnce ==
    \A p \in Proc :
        (run[p].pc = "done" /\ run[p].opened = 1) => run[p].closed = 1

\* C3: no error of opening the connection, of a fetch or of a save leaves
\* fetch as an exception: fetch returns normally and the failure is recorded
\* in the job's state.
C3_NoErrorEscapes ==
    \A p \in Proc :
        run[p].pc = "done" =>
            /\ run[p].outcome = "returned"
            /\ run[p].fault # "none" =>
                  /\ run[p].wrote # <<>>
                  /\ run[p].wrote[Len(run[p].wrote)] = "failure"

\* C4: in the fetchmany connectors, when a page fetch fails after k pages
\* were fetched and saved, the stored processed_rows is the number of records
\* of those k pages, failure_count is one more than before the run and
\* success_count is unchanged.
C4_PartialCountStored ==
    \A p \in Proc :
        (run[p].pc = "done" /\ Prof.loop = "fetchmany" /\ run[p].fault = "fetch") =>
            /\ Count(store[run[p].job], Prof.field) = Len(Flatten(run[p].saved))
            /\ Count(store[run[p].job], "failure_count")
                  = Count(run[p].prior, "failure_count") + 1
            /\ Count(store[run[p].job], "success_count")
                  = Count(run[p].prior, "success_count")

\* C5: in a run in which no call fails the fetch loop ends and the run
\* reaches its state update.
C5_LoopTerminates ==
    (run[Caller].pc = "fetch")
        ~> (run[Caller].pc \in {"get_ok", "set_ok"} \/ run[Caller].fault # "none")

\* C6: in DynamoDB.fetch the loop ends only on a response without a
\* LastEvaluatedKey: a response with no items and a LastEvaluatedKey does not
\* end it.
C6_EndsOnlyWithoutKey ==
    \A p \in Proc :
        (connector = "DynamoDB" /\ run[p].pc = "get_ok") => ~run[p].more

\* C7: when opening the connection fails in the connectors that guard it
\* (ArangoDB, DB2, Presto, Teradata, LDAP), the run stores failure_count + 1,
\* leaves the processed count at its value from before the run, fetches
\* nothing, saves nothing and returns.
C7_ConnectFailureRecorded ==
    \A p \in Proc :
        (run[p].pc = "done" /\ Prof.connect = "guarded" /\ run[p].fault = "connect") =>
            /\ run[p].outcome = "returned"
            /\ run[p].fetches = 0 /\ run[p].saved = <<>> /\ Pending(run[p]) = <<>>
            /\ run[p].wrote = <<"failure">>
            /\ store[run[p].job] # NoState
            /\ Count(store[run[p].job], "failure_count")
                  = Count(run[p].prior, "failure_count") + 1
            /\ \A k \in DOMAIN store[run[p].job] \ {"failure_count"} :
                  store[run[p].job][k] = Count(run[p].prior, k)

\* C8: no run calls set_state more than once, so that no run increments both
\* success_count and failure_count, and a run that got as far as the success
\* update has called it exactly once when fetch ends, also when the statement
\* that follows the success update inside the try raised.
C8_StateWrittenOnce ==
    \A p \in Proc :
        /\ Len(run[p].wrote) <= 1
        /\ (run[p].pc = "done" /\ run[p].fault \in {"none", "post"}) =>
              Len(run[p].wrote) = 1

\* The connectors that read the backend piece by piece inside their loop.
PagingLoops == {"fetchmany", "token", "row"}

C10_OneWritePerBatch ==
    \A p \in Proc :
        (connector = "HBase" /\ run[p].pc = "done" /\ run[p].fault = "none") =>
            /\ run[p].saved = Batches(Data(run[p].rows), run[p].pageSize)
            /\ Count(store[run[p].job], "processed_rows") = run[p].rows
            /\ Count(store[run[p].job], "success_count")
                  = Count(run[p].prior, "success_count") + 1

\* The counters of the run are exact: none has reached the cap MaxCount.
Exact(r) ==
    Len(r.saved) < MaxCount /\ r.processed < MaxCount /\ r.fetches < MaxCount

\* The sum of the two run counters of a stored state.
Runs(st) == Count(st, "success_count") + Count(st, "failure_count")

\* The elements of a sequence.
Range(seq) == {seq[i] : i \in DOMAIN seq}

\* C11: the stored processed count is overwritten, not accumulated: when a run
\* of a connector that keeps a count ends as a success, the stored count is
\* the number of records this run saved, whatever count an earlier run left.
C11_CountOverwritten ==
    \A p \in Proc :
        (run[p].pc = "done" /\ run[p].fault = "none" /\ Prof.field # ""
            /\ Exact(run[p])) =>
            Count(store[run[p].job], Prof.field) = Len(Flatten(run[p].saved))

\* A second successful run of a job that saved 1 record after a successful
\* run that had saved 2.
C11_Witness ==
    \E p \in Proc :
        /\ run[p].pc = "done" /\ run[p].fault = "none" /\ Prof.field # ""
        /\ Count(run[p].prior, "success_count") = 1
        /\ Count(run[p].prior, Prof.field) = 2
        /\ Len(Flatten(run[p].saved)) = 1
        /\ Count(store[run[p].job], "success_count") = 2

\* The loops that follow a continuation token of the backend.
TokenLoops == {"token", "continuation"}

\* C12: in the continuation-token connectors a response without a
\* continuation token ends the loop after its page was saved: the run reads
\* again only after a response that held a token, and taking the token from
\* a response never fails the run.
C12_TokenlessPageEndsRun ==
    \A p \in Proc :
        Prof.loop \in TokenLoops =>
            /\ (run[p].pc = "fetch" /\ run[p].fetches > 0) => run[p].token = "key"
            /\ run[p].fault # "token"

\* C13: in the fetchmany connectors the loop saves every page that is not
\* empty and leaves at the first empty one, which comes when the result set
\* is exhausted; a run without an error is recorded as one success with
\* processed_rows = number of rows of the result set.
C13_StopsAtEmptyPage ==
    \A p \in Proc :
        Prof.loop = "fetchmany" =>
            /\ run[p].pc = "save" => run[p].page # <<>>
            /\ run[p].pc = "get_ok" =>
                  (run[p].page = <<>> /\ run[p].pos = run[p].rows)
            /\ (run[p].pc = "done" /\ run[p].fault = "none") =>
                  /\ run[p].wrote = <<"success">>
                  /\ Count(store[run[p].job], Prof.field) = run[p].rows
                  /\ Count(store[run[p].job], "success_count")
                        = Count(run[p].prior, "success_count") + 1

\* A fetchmany run over 3 rows with page_size 2 that ended without an error
\* after three reads: two pages and the empty one.
C13_Witness ==
    \E p \in Proc :
        /\ Prof.loop = "fetchmany" /\ run[p].pc = "done" /\ run[p].fault = "none"
        /\ run[p].rows = 3 /\ run[p].pageSize = 2 /\ run[p].fetches = 3

\* C14: a single-shot connector reads the backend at most once and saves at
\* most once in a run, and a run without an error has read once and saved
\* once, the whole result.
C14_OneFetchOneSave ==
    \A p \in Proc :
        Prof.loop = "single" =>
            /\ run[p].fetches <= 1 /\ Len(run[p].saved) <= 1
            /\ (run[p].pc = "done" /\ run[p].fault = "none") =>
                  (run[p].fetches = 1 /\ run[p].saved = <<Data(run[p].rows)>>)

\* A single-shot run over 2 records that ended without an error.
C14_Witness ==
    \E p \in Proc :
        /\ Prof.loop = "single" /\ run[p].pc = "done" /\ run[p].fault = "none"
        /\ run[p].rows = 2 /\ Len(run[p].saved) = 1

\* The records the backend has returned to the run that no output.save call
\* has stored.
FetchedUnsaved(r) == {i \in 1..r.pos : i \notin Range(Flatten(r.saved))}

\* The most records one page of the run's loop holds.
PageCap(r) ==
    CASE Prof.loop \in {"single", "drain", "poll"} -> r.rows
      [] Prof.loop = "slice" -> Len(SliceBatch(r))
      [] Prof.loop \in {"row", "limited"} -> 1
      [] OTHER -> r.pageSize

\* C15: pages are handled one after the other: when the run reads, every page
\* read before has been saved, and at any time the records that were fetched
\* and not yet saved are no more than one page.
C15_OnePageInFlight ==
    \A p \in Proc :
        Exact(run[p]) =>
            /\ run[p].pc = "fetch" =>
                  (run[p].page = <<>> /\ run[p].fetches = Len(run[p].saved))
            /\ Cardinality(FetchedUnsaved(run[p])) <= PageCap(run[p])

\* C16: once the query, a page fetch or a save has raised, the run reads no
\* further page, saves nothing more and does not reach the success update.
C16_NoRetry ==
    [][\A p \in Proc :
          (run[p].fault \in {"query", "fetch", "save"} /\ run'[p].pc # "idle") =>
              /\ run'[p].fetches = run[p].fetches
              /\ run'[p].saved = run[p].saved
              /\ run'[p].pc \notin {"fetch", "sleep", "save", "get_ok", "set_ok", "post"}
              /\ run'[p].wrote \in {run[p].wrote, Append(run[p].wrote, "failure")}
      ]_vars

\* A run that has ended after its second save raised.
C16_Witness ==
    \E p \in Proc :
        /\ run[p].pc = "done" /\ run[p].fault = "save"
        /\ Len(run[p].saved) = 1 /\ run[p].fetches = 2

\* C17: two runs under different job ids that overlap do not disturb each
\* other: each reads the database it asked for and ends as it would alone.
C17_RunsIndependent ==
    \A p, q \in Proc :
        (run[p].pc # "idle" /\ run[q].pc # "idle" /\ run[p].job # run[q].job) =>
            /\ run[p].pc \notin {"download", "connect"} =>
                  (run[p].fault \in {"download", "connect"}
                     \/ (run[p].rows = run[p].own /\ run[p].schema))
            /\ run[p].fault # "remove"

\* The run has written once, the state it computed from the one it last read.
WroteWhatItRead(r) == Len(r.wrote) = 1 /\ r.pc # "set_fail"

\* C18: get_state and set_state of a run are two steps and the write replaces
\* the stored state: when two runs of one job id have read the same state and
\* each has written once, the stored success_count + failure_count is one
\* more than in the state they read.
C18_LaterWriteWins ==
    \A p, q \in Proc :
        (p # q /\ run[p].job = run[q].job
            /\ WroteWhatItRead(run[p]) /\ WroteWhatItRead(run[q])
            /\ run[p].got = run[q].got) =>
            Runs(store[run[p].job]) = Runs(run[p].got) + 1

\* Two overlapping runs of one job id that read the same state have both
\* ended, each after one write.
C18_Witness ==
    \E p, q \in Proc :
        /\ p # q /\ run[p].job = run[q].job
        /\ run[p].pc = "done" /\ run[q].pc = "done"
        /\ Len(run[p].wrote) = 1 /\ Len(run[q].wrote) = 1
        /\ run[p].got = run[q].got
        /\ Runs(store[run[p].job]) = 1

\* C19: no run resumes: the stored state holds no cursor, a run begins with
\* no continuation token at the start of the sequence, and the first record
\* it saves is the first record of the backend, also after a failed run.
C19_StartsFromScratch ==
    /\ \A j \in JobIds :
          DOMAIN store[j] \subseteq
              {"success_count", "failure_count", Prof.field,
               ExtraField(Prof), FailureField(Prof)}
    /\ \A p \in Proc :
          /\ run[p].fetches = 0 =>
                /\ run[p].token = "absent" /\ ~run[p].more
                /\ run[p].pos = 0 \/ Prof.loop = "slice"
          /\ (run[p].saved # <<>> /\ run[p].saved[1] # <<>>) =>
                run[p].saved[1][1] = 1

\* A run that follows a failed run of the same job id has saved the first
\* record of the backend again.
C19_Witness ==
    \E p \in Proc :
        /\ Count(run[p].prior, "failure_count") = 1
        /\ Count(run[p].prior, "success_count") = 0
        /\ run[p].rows = 3 /\ Len(run[p].saved) = 2
        /\ run[p].saved[1][1] = 1

\* C20: a run of DocumentDB.fetch or Elasticsearch.fetch that ends without an
\* error has saved every document that matches the query and stores their
\* number as processed_docs, whatever page_size is.
C20_AllMatchesSaved ==
    \A p \in Proc :
        (Prof.loop \in {"limited", "hits"} /\ run[p].pc = "done"
            /\ run[p].fault = "none") =>
            /\ Flatten(run[p].saved) = Data(run[p].rows)
            /\ Count(store[run[p].job], Prof.field) = run[p].rows

\* The connectors whose fetch holds a close of the connection.
Closing == {"finally", "scoped", "unlink"}

\* C21: the connection is released before the job's state is written: in a
\* connector that closes its connection, a run that has called set_state has
\* closed the connection before.
C21_ReleasedBeforeStateUpdate ==
    \A p \in Proc :
        (Prof.release \in Closing /\ run[p].wrote # <<>>) => run[p].closed = 1

\* The steps of a run up to the end of its fetch and save loop.
InLoop == {"download", "connect", "query", "fetch", "sleep", "save"}

\* C22: the state of the job is not written while the run reads and saves:
\* up to the end of the loop the run has called set_state not once and the
\* stored state is the one from before the run.
C22_NoMidRunWrite ==
    \A p \in Proc :
        run[p].pc \in InLoop =>
            (run[p].wrote = <<>> /\ store[run[p].job] = run[p].prior)

\* A run of a job with a stored state is about to save its second page: the
\* in-memory count has changed, the stored state has not.
C22_Witness ==
    \E p \in Proc :
        /\ run[p].pc = "save" /\ Len(run[p].saved) = 1 /\ run[p].processed = 1
        /\ run[p].prior # NoState /\ store[run[p].job] = run[p].prior

\* C23: every stored state has exactly three fields: success_count,
\* failure_count and one processed count.
C23_JobStateFields ==
    \A j \in JobIds :
        store[j] # NoState =>
            \E k \in DOMAIN store[j] \ {"success_count", "failure_count"} :
                DOMAIN store[j] = {"success_count", "failure_count", k}

\* C24: a run that has recorded a success had no error in its query, its
\* fetches and its saves, holds no page it has not saved, and has passed every
\* record it fetched to output.save.
C24_SuccessMeansAllSaved ==
    \A p \in Proc :
        "success" \in Range(run[p].wrote) =>
            /\ run[p].fault \in {"none", "post"}
            /\ run[p].page = <<>>
            /\ FetchedUnsaved(run[p]) = {}

\* A run that recorded a success after two pages.
C24_Witness ==
    \E p \in Proc :
        /\ run[p].pc = "done" /\ run[p].wrote = <<"success">>
        /\ Len(run[p].saved) = 2 /\ run[p].pos = 2

\* C25: every change of the store is the update of a run to the record of
\* its own job id; the success update leaves failure_count as it was and the
\* failure update leaves success_count as it was.
C25_UpdateFrame ==
    [][\A j \in JobIds :
          store'[j] # store[j] =>
              \E p \in Proc :
                  /\ run[p].job = j
                  /\ \/ /\ run[p].pc = "set_ok"
                        /\ Count(store'[j], "failure_count")
                              = Count(store[j], "failure_count")
                        /\ Count(store'[j], "success_count")
                              = Count(store[j], "success_count") + 1
                     \/ /\ run[p].pc = "set_fail"
                        /\ Count(store'[j], "success_count")
                              = Count(store[j], "success_count")
                        /\ Count(store'[j], "failure_count")
                              = Count(store[j], "failure_count") + 1
      ]_vars

\* A failed run of a job that had one success stored has ended: the stored
\* state counts one success and one failure.
C25_Witness ==
    \E p \in Proc :
        /\ run[p].pc = "done" /\ run[p].wrote = <<"failure">>
        /\ Count(run[p].prior, "success_count") = 1
        /\ Count(store[run[p].job], "success_count") = 1
        /\ Count(store[run[p].job], "failure_count") = 1

\* C26: the stored success_count and failure_count of a job id never
\* decrease: they are at least what any run that has written has stored.
C26_CountsNeverDecrease ==
    \A p \in Proc :
        WroteWhatItRead(run[p]) =>
            \A k \in {"success_count", "failure_count"} :
                Count(store[run[p].job], k) >= Count(run[p].cur, k)

\* C27: in the fetchmany connectors and in DynamoDB every page passed to
\* output.save holds at least 1 and at most page_size records, and a run
\* without an error over an empty source saves nothing and is recorded as a
\* success with a processed count of 0.
C27_PageSizeBounds ==
    \A p \in Proc :
        Prof.loop \in {"fetchmany", "token"} =>
            /\ \A i \in DOMAIN run[p].saved :
                  (1 <= Len(run[p].saved[i])
                     /\ Len(run[p].saved[i]) <= run[p].pageSize)
            /\ run[p].pc = "save" =>
                  (1 <= Len(run[p].page) /\ Len(run[p].page) <= run[p].pageSize)
            /\ (run[p].pc = "done" /\ run[p].fault = "none" /\ run[p].rows = 0) =>
                  /\ run[p].saved = <<>>
                  /\ run[p].wrote = <<"success">>
                  /\ Count(store[run[p].job], Prof.field) = 0

\* A run over an empty source that ended without an error, of a job whose
\* earlier run had counted 2 records.
C27_Witness ==
    \E p \in Proc :
        /\ Prof.loop \in {"fetchmany", "token"}
        /\ run[p].pc = "done" /\ run[p].fault = "none" /\ run[p].rows = 0
        /\ Count(run[p].prior, Prof.field) = 2

\* C28: once the query execution is in a terminal state, Athena.fetch leaves
\* its polling loop and reaches a state update.
C28_PollingEnds ==
    (connector = "Athena" /\ run[Caller].status \in Terminal
        /\ run[Caller].pc \in {"fetch", "sleep", "save", "get_ok", "get_fail"})
        ~> (run[Caller].pc \in {"set_ok", "set_fail"})

\* C29: a run of Athena.fetch whose query execution ended as FAILED has saved
\* nothing and has recorded one failure, and only a run whose execution ended
\* as SUCCEEDED records a success.
C29_FailedQueryRecorded ==
    \A p \in Proc :
        connector = "Athena" =>
            /\ (run[p].pc = "done" /\ run[p].status = "FAILED") =>
                  /\ run[p].saved = <<>>
                  /\ run[p].wrote = <<"failure">>
                  /\ Count(store[run[p].job], "success_count")
                        = Count(run[p].prior, "success_count")
                  /\ Count(store[run[p].job], "failure_count")
                        = Count(run[p].prior, "failure_count") + 1
            /\ "success" \in Range(run[p].wrote) => run[p].status = "SUCCEEDED"

\* C30: when SQLite.fetch has ended after a download that succeeded, no file
\* stands at its local path.
C30_TempFileRemoved ==
    \A p \in Proc :
        (connector = "SQLite" /\ run[p].pc = "done" /\ run[p].fault # "download") =>
            ~tmp[run[p].path].present
====
